---- MODULE Spec2Model ----
(***************************************************************************)
(* A model of pythontex_utils2.py: the PythontexUtils object, its          *)
(* formatter selection, the lazily initialised context-aware interface to  *)
(* SymPy's LatexPrinter, and the macro writer.                             *)
(*                                                                         *)
(* Python values are records [type, text].  Dictionaries are functions     *)
(* whose domain is the set of keys present.  Dictionary OBJECTS live in    *)
(* heap, and sympy_latex_settings maps each style to the object it refers  *)
(* to, so that two styles bound to the same dict object share its updates. *)
(***************************************************************************)
EXTENDS Integers, Sequences, FiniteSets, TLC

VARIABLES
    sympy_latex_is_init,    \* self._sympy_latex_is_init
    sympy_latex_settings,   \* self._sympy_latex_settings: style -> dict object
    heap,                   \* dict object -> its current contents
    set_sympy_latex,        \* self.set_sympy_latex: which function is bound
    sympy_latex,            \* self.sympy_latex: which function is bound
    formatter,              \* self.formatter: which function is bound
    make_count,             \* number of adapter functions created so far
    inputtype,              \* self.inputtype
    inputsession,           \* self.inputsession
    inputgroup,             \* self.inputgroup
    inputinstance,          \* self.inputinstance
    macrofile,              \* self.macrofile: the text blocks written so far
    last                    \* the last call made on the object and its outcome

vars == <<sympy_latex_is_init, sympy_latex_settings, heap, set_sympy_latex,
          sympy_latex, formatter, make_count, inputtype, inputsession,
          inputgroup, inputinstance, macrofile, last>>

objvars == <<sympy_latex_is_init, sympy_latex_settings, heap, set_sympy_latex,
             sympy_latex, formatter, make_count>>

inputvars == <<inputtype, inputsession, inputgroup, inputinstance>>

-----------------------------------------------------------------------------
(* Bounds *)

\* largest number of keyword arguments in one call
MaxKw == 2

\* largest number of adapter functions created after the first one
MaxMake == 1

\* largest number of blocks written to the sink
MaxWrites == 2

-----------------------------------------------------------------------------
(* Python values *)

Val(t, s) == [type |-> t, text |-> s]

Str(s) == Val("str", s)

PyNone == Val("NoneType", "None")

\* the values handed to formatters, renderers and the macro writer:
\* an integer, an ASCII string, a byte string holding a non-ASCII byte,
\* and a SymPy matrix
Int42 == Val("int", "42")

StrX == Str("x")

BytesE == Val("bytes", "\\xe9")

Matrix1 == Val("Matrix", "Matrix([[1]])")

Values == {Int42, StrX, BytesE, Matrix1}

\* the expressions handed to sympy_latex: one that the matrix settings do
\* not reach, and a matrix
Exprs == {StrX, Matrix1}

\* a + b of two Python 2 strings; anything else is a TypeError.  The type
\* "str" stands for a unicode string or an ASCII byte string, "bytes" for a
\* byte string that is not ASCII
IsString(v) == v.type \in {"str", "bytes"}

Concat(a, b) ==
    Val(IF a.type = "bytes" \/ b.type = "bytes" THEN "bytes" ELSE "str",
        a.text \o b.text)

-----------------------------------------------------------------------------
(* Dictionaries of LatexPrinter settings *)

_sympy_styles == <<"display", "text", "script", "scriptscript">>

Styles == {_sympy_styles[i] : i \in 1..Len(_sympy_styles)}

Keys == {"mat_str", "mat_delim"}

OptionValues(k) ==
    IF k = "mat_str" THEN {"pmatrix", "smallmatrix"} ELSE {"None", "("}

AllOptionValues == UNION {OptionValues(k) : k \in Keys}

EmptyDict == [k \in {} |-> "None"]

Dicts ==
    UNION { {d \in [K -> AllOptionValues] : \A k \in K : d[k] \in OptionValues(k)}
            : K \in SUBSET Keys }

\* the keyword arguments a call may carry
KwArgs == {d \in Dicts : Cardinality(DOMAIN d) <= MaxKw}

\* d.update(kw), as a new value
Update(d, kw) ==
    [k \in (DOMAIN d) \cup (DOMAIN kw) |-> IF k \in DOMAIN kw THEN kw[k] ELSE d[k]]

DefaultDisplay == [mat_str |-> "pmatrix", mat_delim |-> "None"]

DefaultText == [mat_str |-> "smallmatrix", mat_delim |-> "("]


-----------------------------------------------------------------------------
(* SymPy's LatexPrinter, as far as the settings above reach *)

\* LatexPrinter's own defaults, used for the keys the caller leaves out
PrinterDefaults == [mat_str |-> "smallmatrix", mat_delim |-> "("]

\* LatexPrinter(d).doprint(expr): a matrix is typeset in the environment
\* mat_str inside the delimiter mat_delim; anything else is typeset the same
\* way whatever the matrix settings are
doprint(d, expr) ==
    LET s == Update(PrinterDefaults, d)
        body == "\\begin{" \o s["mat_str"] \o "}1\\end{" \o s["mat_str"] \o "}"
    IN  IF expr.type = "Matrix"
        THEN Str(IF s["mat_delim"] = "None" THEN body
                 ELSE "\\left" \o s["mat_delim"] \o body \o "\\right)")
        ELSE IF expr.type = "int" THEN Str(expr.text)
        ELSE expr

\* r'\mathchoice{' + d + '}{' + t + '}{' + s + '}{' + ss + '}'
mathchoice(d, t, s, ss) ==
    Concat(Str("\\mathchoice{"), Concat(d, Concat(Str("}{"), Concat(t,
    Concat(Str("}{"), Concat(s, Concat(Str("}{"), Concat(ss, Str("}")))))))))

-----------------------------------------------------------------------------
(* Function objects and the outcome of a call *)

Fn(n, strat, i) == [name |-> n, strategy |-> strat, id |-> i]

unicode == Fn("unicode", "-", 0)

identity_formatter == Fn("identity_formatter", "-", 0)

_dummy_sympy_latex == Fn("_dummy_sympy_latex", "-", 0)

Returned(v, rs) == [status |-> "ok", value |-> v, renders |-> rs]

Raised(e, rs) == [status |-> e, value |-> PyNone, renders |-> rs]

\* the settings each style currently refers to
Stored == [s \in DOMAIN sympy_latex_settings |-> heap[sympy_latex_settings[s]]]

\* the branch of _make_sympy_latex taken for the settings st
strategy_of(st) ==
    IF \A s \in Styles : st[s] = EmptyDict THEN "empty"
    ELSE IF \A s \in Styles : st[s] = st["display"] THEN "equal"
    ELSE IF \A s \in {"script", "scriptscript"} : st[s] = st["text"]
         THEN "display_differs"
    ELSE "general"

\* the four bodies of sympy_latex(expr, **settings); st is read at call time
sympy_latex_empty(st, expr, kw) ==
    Returned(doprint(kw, expr), <<kw>>)

sympy_latex_equal(st, expr, kw) ==
    IF kw = EmptyDict
    THEN Returned(doprint(st["display"], expr), <<st["display"]>>)
    ELSE LET final_settings == Update(st["display"], kw)
         IN  Returned(doprint(final_settings, expr), <<final_settings>>)

\* sympy_latex_display_differs with the text settings copied from 'display'
sympy_latex_display_copy(st, expr, kw) ==
    LET display_settings == IF kw = EmptyDict THEN st["display"]
                            ELSE Update(st["display"], kw)
        text_settings == IF kw = EmptyDict THEN st["text"]
                         ELSE Update(st["display"], kw)
        display == doprint(display_settings, expr)
        text == doprint(text_settings, expr)
    IN  Returned(IF display = text THEN display
                 ELSE mathchoice(display, text, text, text),
                 <<display_settings, text_settings>>)

sympy_latex_display_differs(st, expr, kw) ==
    LET display_settings == IF kw = EmptyDict THEN st["display"]
                            ELSE Update(st["display"], kw)
        text_settings == IF kw = EmptyDict THEN st["text"]
                         ELSE Update(st["text"], kw)
        display == doprint(display_settings, expr)
        text == doprint(text_settings, expr)
    IN  Returned(IF display = text THEN display
                 ELSE mathchoice(display, text, text, text),
                 <<display_settings, text_settings>>)

sympy_latex_general(st, expr, kw) ==
    IF kw = EmptyDict
    THEN LET display == doprint(st["display"], expr)
             text == doprint(st["text"], expr)
             script == doprint(st["script"], expr)
             scriptscript == doprint(st["scriptscript"], expr)
         IN  Returned(IF display = text /\ display = script
                         /\ display = scriptscript
                      THEN display
                      ELSE mathchoice(display, text, script, scriptscript),
                      <<st["display"], st["text"], st["script"],
                        st["scriptscript"]>>)
    ELSE \* self._sympy_latex_settings['scripscript'] is not a key
         Raised("KeyError", <<Update(st["display"], kw), Update(st["text"], kw),
                              Update(st["script"], kw)>>)

\* calling the function object f on expr with keyword arguments kw
Call(f, expr, kw) ==
    IF f.name = "unicode"
    THEN IF kw # EmptyDict THEN Raised("TypeError", <<>>)
         ELSE IF expr.type = "bytes" THEN Raised("UnicodeDecodeError", <<>>)
         ELSE Returned(Str(expr.text), <<>>)
    ELSE IF f.name = "identity_formatter"
    THEN IF kw # EmptyDict THEN Raised("TypeError", <<>>)
         ELSE Returned(expr, <<>>)
    ELSE IF f.name = "_dummy_sympy_latex"
    THEN Raised("UserWarning", <<>>)
    ELSE IF f.strategy = "empty" THEN sympy_latex_empty(Stored, expr, kw)
    ELSE IF f.strategy = "equal" THEN sympy_latex_equal(Stored, expr, kw)
    ELSE IF f.strategy = "display_differs"
         THEN sympy_latex_display_differs(Stored, expr, kw)
    ELSE sympy_latex_general(Stored, expr, kw)

-----------------------------------------------------------------------------
(* The record of the last call: its name and its outcome, and the arguments *)
(* of a call that only queries the object                                  *)

Called(op, res) ==
    [op |-> op, expr |-> PyNone, kw |-> EmptyDict, status |-> res.status,
     value |-> res.value, renders |-> res.renders]

Queried(op, expr, kw, res) ==
    [op |-> op, expr |-> expr, kw |-> kw, status |-> res.status,
     value |-> res.value, renders |-> res.renders]

\* the arguments set_formatter is called with: the supported names, an
\* unsupported name, and a value that is not a string
FormatterArgs ==
    {Str("str"), Str("sympy_latex"), Str("identity"), Str("None"), Str("none"),
     Str("latex"), Int42}

\* the styles set_sympy_latex is called with: the four styles, 'all', and an
\* unknown one
StyleArgs == Styles \cup {"all", "huge"}

\* the values printed via macros: the integer 42, the string '42' and the
\* byte string
Str42 == Str("42")

PrintValues == {Int42, Str42, BytesE}

InputTypes == {"c"}

InputSessions == {"default"}

InputGroups == {"0"}

InputInstances == {"3", "4"}

-----------------------------------------------------------------------------
(* _make_sympy_latex and init_sympy_latex *)

\* self._make_sympy_latex() once the settings are st: a new function object,
\* specialised to the branch st selects, is bound to self.sympy_latex
_make_sympy_latex(st) ==
    /\ sympy_latex' = Fn("sympy_latex", strategy_of(st), make_count + 1)
    /\ make_count' = make_count + 1

\* init_sympy_latex without the test of _sympy_latex_is_init
init_sympy_latex_again ==
    /\ sympy_latex_is_init' = TRUE
    /\ sympy_latex_settings' = [s \in Styles |-> IF s = "display" THEN 1 ELSE 2]
    /\ heap' = <<DefaultDisplay, DefaultText>>
    /\ set_sympy_latex' = "set_sympy_latex"
    /\ _make_sympy_latex([s \in Styles |-> IF s = "display" THEN DefaultDisplay
                                            ELSE DefaultText])

\* init_sympy_latex with 'script' and 'scriptscript' given dictionaries of
\* their own, copied from that of 'text'
init_sympy_latex_copies ==
    IF sympy_latex_is_init
    THEN UNCHANGED <<sympy_latex_is_init, sympy_latex_settings, heap,
                     set_sympy_latex, sympy_latex, make_count>>
    ELSE /\ sympy_latex_is_init' = TRUE
         /\ sympy_latex_settings' =
                [s \in Styles |-> CHOOSE i \in 1..Len(_sympy_styles) :
                                      _sympy_styles[i] = s]
         /\ heap' = <<DefaultDisplay, DefaultText, DefaultText, DefaultText>>
         /\ set_sympy_latex' = "set_sympy_latex"
         /\ _make_sympy_latex([s \in Styles |-> IF s = "display"
                                                 THEN DefaultDisplay
                                                 ELSE DefaultText])

\* self.init_sympy_latex()
init_sympy_latex ==
    IF sympy_latex_is_init
    THEN UNCHANGED <<sympy_latex_is_init, sympy_latex_settings, heap,
                     set_sympy_latex, sympy_latex, make_count>>
    ELSE /\ sympy_latex_is_init' = TRUE
         /\ sympy_latex_settings' =
                [s \in Styles |-> IF s = "display" THEN 1 ELSE 2]
         /\ heap' = <<DefaultDisplay, DefaultText>>
         /\ set_sympy_latex' = "set_sympy_latex"
         /\ _make_sympy_latex([s \in Styles |-> IF s = "display"
                                                 THEN DefaultDisplay
                                                 ELSE DefaultText])

-----------------------------------------------------------------------------
(* set_formatter *)

\* set_formatter_raises with 'identity' as the only name of the pass-through
set_formatter_raises_strict(fmtr) ==
    IF fmtr.type \notin {"str", "bytes"} THEN "TypeError"
    ELSE IF fmtr.text \in {"str", "sympy_latex", "identity"} THEN "ok"
    ELSE "ValueError"

\* self.set_formatter(fmtr), and what it raises
set_formatter_raises(fmtr) ==
    IF fmtr.type \notin {"str", "bytes"} THEN "TypeError"
    ELSE IF fmtr.text \in {"str", "sympy_latex", "None", "none", "identity"}
         THEN "ok"
    ELSE "ValueError"

set_formatter(fmtr) ==
    IF set_formatter_raises(fmtr) # "ok"
    THEN UNCHANGED objvars
    ELSE IF fmtr.text = "str"
    THEN /\ formatter' = unicode
         /\ UNCHANGED <<sympy_latex_is_init, sympy_latex_settings, heap,
                        set_sympy_latex, sympy_latex, make_count>>
    ELSE IF fmtr.text = "sympy_latex"
    THEN /\ init_sympy_latex
         /\ formatter' = sympy_latex'
    ELSE /\ formatter' = identity_formatter
         /\ UNCHANGED <<sympy_latex_is_init, sympy_latex_settings, heap,
                        set_sympy_latex, sympy_latex, make_count>>

-----------------------------------------------------------------------------
(* The state after PythontexUtils(fmtr) *)

Init ==
    \E fmtr \in {"str", "sympy_latex", "identity"} :
        /\ sympy_latex_is_init = (fmtr = "sympy_latex")
        /\ sympy_latex_settings =
               IF fmtr = "sympy_latex"
               THEN [s \in Styles |-> IF s = "display" THEN 1 ELSE 2]
               ELSE << >>
        /\ heap = IF fmtr = "sympy_latex" THEN <<DefaultDisplay, DefaultText>>
                  ELSE << >>
        /\ set_sympy_latex = IF fmtr = "sympy_latex" THEN "set_sympy_latex"
                             ELSE "_dummy_set_sympy_latex"
        /\ sympy_latex = IF fmtr = "sympy_latex"
                         THEN Fn("sympy_latex", "display_differs", 1)
                         ELSE _dummy_sympy_latex
        /\ formatter = IF fmtr = "sympy_latex"
                       THEN Fn("sympy_latex", "display_differs", 1)
                       ELSE IF fmtr = "str" THEN unicode
                       ELSE identity_formatter
        /\ make_count = IF fmtr = "sympy_latex" THEN 1 ELSE 0
        /\ inputtype \in InputTypes
        /\ inputsession \in InputSessions
        /\ inputgroup \in InputGroups
        /\ inputinstance \in InputInstances
        /\ macrofile = << >>
        /\ last = Called("__init__", Returned(PyNone, << >>))

-----------------------------------------------------------------------------
(* The closure set_sympy_latex(style, **kwargs) created by init_sympy_latex *)

\* for s in self._sympy_styles: self._sympy_latex_settings[s].update(kwargs),
\* from the i-th style on
RECURSIVE update_styles(_, _, _)
update_styles(h, i, kw) ==
    IF i > Len(_sympy_styles) THEN h
    ELSE update_styles(
             [h EXCEPT ![sympy_latex_settings[_sympy_styles[i]]] = Update(@, kw)],
             i + 1, kw)

set_sympy_latex_raises(style) ==
    IF style \in Styles \/ style = "all" THEN "ok" ELSE "UserWarning"

\* set_sympy_latex_closure with the adapter made again before the style is
\* looked at
set_sympy_latex_eager(style, kw) ==
    IF style \in Styles
    THEN /\ heap' = [heap EXCEPT ![sympy_latex_settings[style]] = Update(@, kw)]
         /\ _make_sympy_latex([s \in Styles |-> heap'[sympy_latex_settings[s]]])
    ELSE IF style = "all"
    THEN /\ heap' = update_styles(heap, 1, kw)
         /\ _make_sympy_latex([s \in Styles |-> heap'[sympy_latex_settings[s]]])
    ELSE /\ heap' = heap
         /\ _make_sympy_latex([s \in Styles |-> heap'[sympy_latex_settings[s]]])

set_sympy_latex_closure(style, kw) ==
    IF style \in Styles
    THEN /\ heap' = [heap EXCEPT ![sympy_latex_settings[style]] = Update(@, kw)]
         /\ _make_sympy_latex([s \in Styles |-> heap'[sympy_latex_settings[s]]])
    ELSE IF style = "all"
    THEN /\ heap' = update_styles(heap, 1, kw)
         /\ _make_sympy_latex([s \in Styles |-> heap'[sympy_latex_settings[s]]])
    ELSE UNCHANGED <<heap, sympy_latex, make_count>>

\* what binding the arguments (args, **kw) to the function bound to
\* self.set_sympy_latex raises: _dummy_set_sympy_latex(self) takes no
\* argument, the closure takes exactly the style
set_sympy_latex_binds(args, kw) ==
    IF set_sympy_latex = "_dummy_set_sympy_latex"
    THEN args = << >> /\ kw = EmptyDict
    ELSE Len(args) = 1

-----------------------------------------------------------------------------
(* _print_via_macro *)

\* before with the group ahead of the session
before_swapped ==
    Str("\\expandafter\\long\\expandafter\\def\\csname pytx@MCR@" \o inputtype
        \o "@" \o inputgroup \o "@" \o inputsession \o "@" \o inputinstance
        \o "\\endcsname{")

before ==
    Str("\\expandafter\\long\\expandafter\\def\\csname pytx@MCR@" \o inputtype
        \o "@" \o inputsession \o "@" \o inputgroup \o "@" \o inputinstance
        \o "\\endcsname{")

after == Str("}\n\n")

\* the outcome of unicode(before + self.formatter(expr) + after): the text to
\* write, or the exception raised on the way
macro_text(expr) ==
    LET r == Call(formatter, expr, EmptyDict)
    IN  IF r.status # "ok" THEN r
        ELSE IF ~IsString(r.value) THEN Raised("TypeError", r.renders)
        ELSE LET text == Concat(Concat(before, r.value), after)
             IN  IF text.type = "bytes"
                 THEN Raised("UnicodeDecodeError", r.renders)
                 ELSE Returned(text, r.renders)

_print_via_macro(expr) ==
    LET r == macro_text(expr)
    IN  IF r.status = "ok" THEN macrofile' = Append(macrofile, r.value.text)
        ELSE UNCHANGED macrofile

-----------------------------------------------------------------------------
(* The calls made on the object *)

SetFormatterCall(fmtr) ==
    /\ set_formatter(fmtr)
    /\ last' = Called("set_formatter",
                      IF set_formatter_raises(fmtr) = "ok"
                      THEN Returned(PyNone, << >>)
                      ELSE Raised(set_formatter_raises(fmtr), << >>))
    /\ UNCHANGED <<inputvars, macrofile>>

InitSympyLatexCall ==
    /\ init_sympy_latex
    /\ last' = Called("init_sympy_latex", Returned(PyNone, << >>))
    /\ UNCHANGED <<formatter, inputvars, macrofile>>

\* self.set_sympy_latex(*args, **kw), args being << >> or <<style>>
SetSympyLatexCall(args, kw) ==
    /\ (set_sympy_latex = "set_sympy_latex" /\ Len(args) = 1
        /\ set_sympy_latex_raises(args[1]) = "ok") => make_count <= MaxMake
    /\ IF ~set_sympy_latex_binds(args, kw)
       THEN /\ last' = Called("set_sympy_latex", Raised("TypeError", << >>))
            /\ UNCHANGED <<heap, sympy_latex, make_count>>
       ELSE IF set_sympy_latex = "_dummy_set_sympy_latex"
       THEN /\ last' = Called("set_sympy_latex", Raised("UserWarning", << >>))
            /\ UNCHANGED <<heap, sympy_latex, make_count>>
       ELSE /\ set_sympy_latex_closure(args[1], kw)
            /\ last' = Called("set_sympy_latex",
                              IF set_sympy_latex_raises(args[1]) = "ok"
                              THEN Returned(PyNone, << >>)
                              ELSE Raised(set_sympy_latex_raises(args[1]), << >>))
    /\ UNCHANGED <<sympy_latex_is_init, sympy_latex_settings, set_sympy_latex,
                   formatter, inputvars, macrofile>>

\* self.sympy_latex(expr, **kw)
SympyLatexCall(expr, kw) ==
    /\ last' = Queried("sympy_latex", expr, kw, Call(sympy_latex, expr, kw))
    /\ UNCHANGED <<objvars, inputvars, macrofile>>

\* self.formatter(expr)
FormatterCall(expr) ==
    /\ last' = Queried("formatter", expr, EmptyDict,
                       Call(formatter, expr, EmptyDict))
    /\ UNCHANGED <<objvars, inputvars, macrofile>>

\* self._print_via_macro(expr)
PrintViaMacroCall(expr) ==
    /\ Len(macrofile) < MaxWrites
    /\ _print_via_macro(expr)
    /\ last' = Called("_print_via_macro",
                      IF macro_text(expr).status = "ok"
                      THEN Returned(PyNone, macro_text(expr).renders)
                      ELSE macro_text(expr))
    /\ UNCHANGED <<objvars, inputvars>>

\* the generated script stores the position of the next command
SetInput(type, session, group, instance) ==
    /\ inputtype' = type
    /\ inputsession' = session
    /\ inputgroup' = group
    /\ inputinstance' = instance
    /\ last' = Called("input", Returned(PyNone, << >>))
    /\ UNCHANGED <<objvars, macrofile>>

\* the argument lists set_sympy_latex is called with
StyleArgLists == {<< >>} \cup {<<s>> : s \in StyleArgs}

\* The calls that configure the object or query it.  PrintViaMacroCall and
\* SetInput change only the sink and the position, which no other call reads.
Next ==
    \/ \E fmtr \in FormatterArgs : SetFormatterCall(fmtr)
    \/ InitSympyLatexCall
    \/ \E args \in StyleArgLists, kw \in KwArgs : SetSympyLatexCall(args, kw)
    \/ \E expr \in Exprs, kw \in KwArgs : SympyLatexCall(expr, kw)
    \/ \E expr \in Values : FormatterCall(expr)

Spec == Init /\ [][Next]_vars

\* The calls that configure the object or write to the sink.  SympyLatexCall
\* and FormatterCall change nothing of the object, so the objects written from
\* here are those of Spec.
NextMacro ==
    \/ \E fmtr \in FormatterArgs : SetFormatterCall(fmtr)
    \/ InitSympyLatexCall
    \/ \E args \in StyleArgLists, kw \in KwArgs : SetSympyLatexCall(args, kw)
    \/ \E t \in InputTypes, s \in InputSessions, g \in InputGroups,
          i \in InputInstances : SetInput(t, s, g, i)
    \/ \E expr \in PrintValues : PrintViaMacroCall(expr)

SpecMacro == Init /\ [][NextMacro]_vars

-----------------------------------------------------------------------------
(* _make_sympy_latex as a function of the four settings dictionaries *)

\* the settings dictionaries _make_sympy_latex is tried on: none, the two
\* defaults, and one that LatexPrinter typesets like the text default
SettingsSamples ==
    {EmptyDict, DefaultDisplay, DefaultText, [mat_str |-> "smallmatrix"]}

\* self._make_sympy_latex(), called on the object as it is
MakeSympyLatexCall ==
    /\ make_count <= MaxMake
    /\ _make_sympy_latex(Stored)
    /\ last' = Called("_make_sympy_latex", Returned(PyNone, << >>))
    /\ UNCHANGED <<sympy_latex_is_init, sympy_latex_settings, heap,
                   set_sympy_latex, formatter, inputvars, macrofile>>

\* an initialised object whose four styles have been given a dictionary each
InitMake ==
    /\ sympy_latex_is_init = TRUE
    /\ sympy_latex_settings =
           [s \in Styles |-> CHOOSE i \in 1..Len(_sympy_styles) :
                                 _sympy_styles[i] = s]
    /\ heap \in [1..Len(_sympy_styles) -> SettingsSamples]
    /\ set_sympy_latex = "set_sympy_latex"
    /\ sympy_latex = Fn("sympy_latex", "display_differs", 1)
    /\ formatter = unicode
    /\ make_count = 1
    /\ inputtype \in InputTypes
    /\ inputsession \in InputSessions
    /\ inputgroup \in InputGroups
    /\ inputinstance \in InputInstances
    /\ macrofile = << >>
    /\ last = Called("__init__", Returned(PyNone, << >>))

NextMake ==
    \/ MakeSympyLatexCall
    \/ \E expr \in Exprs, kw \in KwArgs : SympyLatexCall(expr, kw)

SpecMake == InitMake /\ [][NextMake]_vars

-----------------------------------------------------------------------------
(* Properties *)

allvars == <<objvars, inputvars, macrofile>>

\* C1: once initialised, set_sympy_latex(s, **kw) for one of the four styles
\* s changes the stored settings of s only, and set_sympy_latex('all', **kw)
\* applies kw to the stored settings of all four styles.
C1_UpdateTouchesOnlyItsStyle ==
    [][\A kw \in KwArgs :
         /\ \A s \in Styles :
                (sympy_latex_is_init /\ SetSympyLatexCall(<<s>>, kw))
                => /\ Stored'[s] = Update(Stored[s], kw)
                   /\ \A t \in Styles \ {s} : Stored'[t] = Stored[t]
         /\ (sympy_latex_is_init /\ SetSympyLatexCall(<<"all">>, kw))
            => \A t \in Styles : Stored'[t] = Update(Stored[t], kw)]_vars

\* C2: whenever the active formatter is a symbolic adapter, it is the adapter
\* function _make_sympy_latex generated last, the one bound to sympy_latex.
C2_FormatterNeverStale ==
    formatter.name = "sympy_latex" => formatter = sympy_latex

\* C3: before initialisation, set_sympy_latex(style, **kw) and
\* sympy_latex(expr, **kw) both fail with UserWarning and change nothing.
C3_UninitialisedCallsWarn ==
    [][~sympy_latex_is_init =>
         /\ \A s \in StyleArgs, kw \in KwArgs :
                SetSympyLatexCall(<<s>>, kw)
                => last'.status = "UserWarning" /\ UNCHANGED allvars
         /\ \A expr \in Exprs, kw \in KwArgs :
                SympyLatexCall(expr, kw)
                => last'.status = "UserWarning" /\ UNCHANGED allvars]_vars

\* the adapter bound to sympy_latex was generated for the settings as stored
AdapterOf(strat) ==
    /\ sympy_latex_is_init
    /\ sympy_latex.name = "sympy_latex"
    /\ sympy_latex.strategy = strat
    /\ strategy_of(Stored) = strat

C5_DisplayDiffersRendersTwice ==
    (sympy_latex_is_init /\ last.op = "sympy_latex"
     /\ strategy_of(Stored) = "display_differs")
    => LET D == doprint(Update(Stored["display"], last.kw), last.expr)
           T == doprint(Update(Stored["text"], last.kw), last.expr)
       IN  /\ last.status = "ok"
           /\ last.renders = <<Update(Stored["display"], last.kw),
                               Update(Stored["text"], last.kw)>>
           /\ last.value = IF D = T THEN D
                           ELSE Concat(Str("\\mathchoice{"),
                                Concat(D, Concat(Str("}{"),
                                Concat(T, Concat(Str("}{"),
                                Concat(T, Concat(Str("}{"),
                                Concat(T, Str("}")))))))))

\* a call on a matrix, with an override, answered by \mathchoice{D}{T}{T}{T}
C5_Witness ==
    /\ sympy_latex_is_init
    /\ strategy_of(Stored) = "display_differs"
    /\ last.op = "sympy_latex"
    /\ last.expr = Matrix1
    /\ last.status = "ok"
    /\ Len(last.renders) = 2
    /\ last.kw = [mat_str |-> "pmatrix"]
    /\ last.value.text =
           "\\mathchoice{\\begin{pmatrix}1\\end{pmatrix}}{" \o
           "\\left(\\begin{pmatrix}1\\end{pmatrix}\\right)}{" \o
           "\\left(\\begin{pmatrix}1\\end{pmatrix}\\right)}{" \o
           "\\left(\\begin{pmatrix}1\\end{pmatrix}\\right)}"

\* C6: on an initialised object, init_sympy_latex, called directly or by
\* set_formatter('sympy_latex'), leaves the stored settings, the
\* set_sympy_latex operation and the sympy_latex adapter as they were, and
\* the object never becomes uninitialised again.
C6_InitIsIdempotent ==
    [][sympy_latex_is_init =>
         /\ sympy_latex_is_init'
         /\ (InitSympyLatexCall \/ SetFormatterCall(Str("sympy_latex")))
            => UNCHANGED <<sympy_latex_settings, heap, set_sympy_latex,
                           sympy_latex, make_count>>]_vars

\* init_sympy_latex has returned on an object whose settings had been updated
C6_Witness ==
    /\ sympy_latex_is_init
    /\ last.op = "init_sympy_latex"
    /\ heap # <<DefaultDisplay, DefaultText>>
    /\ make_count > 1

C7_StoredSettingsKept ==
    [][last'.op = "sympy_latex" => UNCHANGED <<sympy_latex_settings, heap>>]_vars

\* what set_formatter(fmtr) does when fmtr names a formatter: 'str' binds the
\* text coercion, 'sympy_latex' initialises the adapter if need be and binds
\* it, the names in passthrough bind the pass-through function
InstallsNamed(fmtr, passthrough) ==
    /\ fmtr.text = "str"
       => /\ formatter' = unicode
          /\ UNCHANGED <<sympy_latex_is_init, sympy_latex_settings, heap,
                         set_sympy_latex, sympy_latex, make_count>>
    /\ fmtr.text \in passthrough
       => /\ formatter' = identity_formatter
          /\ UNCHANGED <<sympy_latex_is_init, sympy_latex_settings, heap,
                         set_sympy_latex, sympy_latex, make_count>>
    /\ fmtr.text = "sympy_latex"
       => /\ sympy_latex_is_init'
          /\ sympy_latex'.name = "sympy_latex"
          /\ formatter' = sympy_latex'
          /\ sympy_latex_is_init => sympy_latex' = sympy_latex

\* the outcome of set_formatter(fmtr), the names in passthrough being those
\* of the pass-through function
SetFormatterOutcome(fmtr, passthrough) ==
    IF fmtr.type # "str"
    THEN last'.status = "TypeError" /\ UNCHANGED allvars
    ELSE IF fmtr.text \in {"str", "sympy_latex"} \cup passthrough
    THEN last'.status = "ok" /\ InstallsNamed(fmtr, passthrough)
    ELSE last'.status = "ValueError" /\ UNCHANGED allvars

\* C8 as stated: 'str', 'identity' and 'sympy_latex' install their function,
\* every other string fails with ValueError, a non-string with TypeError.
C8_OnlyThreeNames ==
    [][last'.op = "set_formatter" =>
         \A fmtr \in FormatterArgs :
             SetFormatterCall(fmtr) => SetFormatterOutcome(fmtr, {"identity"})]_vars

\* C8, amended: 'identity', 'None' and 'none' all install the pass-through
\* function; otherwise as stated.  A value formatted by the pass-through
\* function comes back unchanged.
C8_SetFormatterOutcomes ==
    [][/\ last'.op = "set_formatter" =>
            \A fmtr \in FormatterArgs :
                SetFormatterCall(fmtr)
                => SetFormatterOutcome(fmtr, {"identity", "None", "none"})
       /\ (last'.op = "formatter" /\ formatter = identity_formatter)
          => last'.status = "ok" /\ last'.value = last'.expr]_vars

\* the pass-through function, installed in place of the symbolic adapter, has
\* returned a matrix as it is
C8_Witness ==
    /\ sympy_latex_is_init
    /\ formatter = identity_formatter
    /\ last.op = "formatter"
    /\ last.expr = Matrix1
    /\ last.value = Matrix1

\* the block _print_via_macro writes for the text formatted
MacroBlock(formatted) ==
    "\\expandafter\\long\\expandafter\\def\\csname pytx@MCR@" \o inputtype
    \o "@" \o inputsession \o "@" \o inputgroup \o "@" \o inputinstance
    \o "\\endcsname{" \o formatted \o "}\n\n"

\* C9 as stated: _print_via_macro(value) appends exactly one block, built
\* from the position and the formatted value, unless the formatter raises,
\* and then the error propagates and nothing is written.
C9_AlwaysOneBlock ==
    [][last'.op = "_print_via_macro" =>
         \A expr \in PrintValues :
             PrintViaMacroCall(expr)
             => LET r == Call(formatter, expr, EmptyDict)
                IN  IF r.status = "ok"
                    THEN /\ last'.status = "ok"
                         /\ macrofile' = Append(macrofile, MacroBlock(r.value.text))
                    ELSE /\ last'.status = r.status
                         /\ macrofile' = macrofile]_vars

\* C9, amended: the block is appended when the formatter returns text (a
\* unicode string, or a byte string that is ASCII); when the formatter
\* raises, the error propagates; when it returns a value that is not a
\* string, the call fails with TypeError; when it returns a byte string that
\* is not ASCII, with UnicodeDecodeError; in these three cases nothing is
\* written.
C9_OneBlockForText ==
    [][last'.op = "_print_via_macro" =>
         \A expr \in PrintValues :
             PrintViaMacroCall(expr)
             => LET r == Call(formatter, expr, EmptyDict)
                IN  IF r.status = "ok" /\ r.value.type = "str"
                    THEN /\ last'.status = "ok"
                         /\ macrofile' = Append(macrofile, MacroBlock(r.value.text))
                    ELSE /\ last'.status =
                                IF r.status # "ok" THEN r.status
                                ELSE IF r.value.type = "bytes"
                                     THEN "UnicodeDecodeError"
                                ELSE "TypeError"
                         /\ macrofile' = macrofile]_vars

\* a second block has been appended, for position c@default@0@4
C9_Witness ==
    /\ last.op = "_print_via_macro"
    /\ last.status = "ok"
    /\ Len(macrofile) = 2
    /\ macrofile[2] = "\\expandafter\\long\\expandafter\\def\\csname "
                      \o "pytx@MCR@c@default@0@4\\endcsname{42}\n\n"

\* C10: once initialised, set_sympy_latex(style, **kw) with an unknown style
\* fails, changes no stored settings and generates no adapter; with one of
\* the four styles or 'all' it generates a new adapter, for the settings as
\* updated.
C10_UnknownStyleChangesNothing ==
    [][(sympy_latex_is_init /\ last'.op = "set_sympy_latex") =>
         \A s \in StyleArgs, kw \in KwArgs :
             SetSympyLatexCall(<<s>>, kw)
             => IF s \in Styles \cup {"all"}
                THEN /\ last'.status = "ok"
                     /\ sympy_latex' # sympy_latex
                     /\ sympy_latex'.id = make_count'
                     /\ make_count' = make_count + 1
                     /\ sympy_latex'.strategy = strategy_of(Stored')
                     /\ \A t \in Styles :
                            (s = t \/ s = "all")
                            => Stored'[t] = Update(Stored[t], kw)
                ELSE /\ last'.status = "UserWarning"
                     /\ UNCHANGED allvars]_vars

\* a call with an unknown style has failed on an initialised object
C10_Witness ==
    /\ sympy_latex_is_init
    /\ last.op = "set_sympy_latex"
    /\ last.status = "UserWarning"
    /\ heap # <<DefaultDisplay, DefaultText>>

\* C11: once the object is initialised, the settings of all four styles
\* exist, those of script and scriptscript equal those of text, and none is
\* empty; so the adapter bound to sympy_latex, and any adapter bound to the
\* formatter, is the single-render one or the two-render one, never the
\* pass-through of empty settings nor the general four-render one.
C11_OnlyEqualOrDisplayDiffers ==
    sympy_latex_is_init =>
        /\ DOMAIN sympy_latex_settings = Styles
        /\ Stored["script"] = Stored["text"]
        /\ Stored["scriptscript"] = Stored["text"]
        /\ \A s \in Styles : Stored[s] # EmptyDict
        /\ strategy_of(Stored) \in {"equal", "display_differs"}
        /\ sympy_latex.name = "sympy_latex"
        /\ sympy_latex.strategy \in {"equal", "display_differs"}
        /\ formatter.name = "sympy_latex"
           => formatter.strategy \in {"equal", "display_differs"}

\* an update has changed the settings of text, script and scriptscript, and
\* the single-render adapter has been installed for them
C11_Witness ==
    /\ sympy_latex_is_init
    /\ last.op = "set_sympy_latex"
    /\ last.status = "ok"
    /\ Stored["display"] = DefaultDisplay
    /\ Stored["text"] = DefaultDisplay
    /\ Stored["script"] = DefaultDisplay
    /\ sympy_latex.strategy = "equal"
    /\ sympy_latex.id = 2

====
